---- MODULE Spec2Model ----
(***************************************************************************)
(* Model of DataAccess_Class.DigAccess (nEDM-TUM/fierdat): resolution of   *)
(* the user's read settings into the read plan, lazy assembly of the       *)
(* per-channel arrays from the reader's segments, and the channel          *)
(* accessor.                                                               *)
(*                                                                         *)
(* Conventions.                                                            *)
(*  - An exception is the name of its Python class in err ("none" when the *)
(*    call returned); msg carries what the exception's text enumerates.    *)
(*  - Times are rationals n/TimeDen seconds; frequencies are integers.     *)
(*  - `/` on integers is Python 2 floor division (the module is Python 2   *)
(*    code: line 171 hands the quotient to np.zeros as a length).          *)
(*  - A channels_to_read value is [type, val]: type "int" with val = <<n>> *)
(*    for the scalar n, type "list" with val the list.                     *)
(***************************************************************************)
EXTENDS Integers, Sequences, FiniteSets, TLC

VARIABLES
    header,               \* self.header: the DigHeader facts
    user_settings,        \* self.user_settings: the constructor's argument
    phase,                \* "new" before __init__, "open" after it, "failed" if it raised
    read_settings,        \* self.read_settings (= self.read.settings): the plan
    _internal_data_dict,  \* self._internal_data_dict: channel -> array
    op,                   \* the last call: "none", "__init__", "data_dict", "channel"
    arg,                  \* the channel id of the last channel() call (-1 otherwise)
    err,                  \* exception class raised by the last call, or "none"
    msg,                  \* what the exception's message enumerates
    ret,                  \* what the last call returned
    trace,                \* what the last call did: load, allocation, segments consumed
    history,              \* what earlier calls left behind: assembled, partial
    calls                 \* number of accessor calls made so far

vars == <<header, user_settings, phase, read_settings, _internal_data_dict,
          op, arg, err, msg, ret, trace, history, calls>>

-----------------------------------------------------------------------------
(* Bounds of the model *)

MaxCalls == 2        \* accessor calls per session
MaxSegs == 3         \* segments one data_segments() run yields
ArrayCapacity == 3   \* the longest array np.zeros builds; longer raises ValueError
TimeDen == 4         \* start_time/end_time are multiples of 1/TimeDen seconds

-----------------------------------------------------------------------------
(* Helpers *)

ToSet(s) == {s[i] : i \in DOMAIN s}

Min(a, b) == IF a <= b THEN a ELSE b

\* Python 2 `a / b` on ints: floor division, b # 0
PyFloorDiv(a, b) == IF b > 0 THEN a \div b ELSE (-a) \div (-b)

\* np.ceil(n / d) for d > 0
PyCeilDiv(n, d) == -((-n) \div d)

EmptyDict == [k \in {} |-> 0]

NoMsg == [kind |-> "none", keys |-> {}, available |-> <<>>,
          channel_list |-> <<>>, channel_names |-> <<>>]

NoRet == [kind |-> "none", dict |-> EmptyDict, array |-> <<>>]

NoTrace == [loaded |-> FALSE, allocated |-> FALSE, stored |-> FALSE, consumed |-> FALSE,
            capacity |-> FALSE, overflow |-> FALSE, segments |-> <<>>,
            pre_assembled |-> FALSE, pre_partial |-> FALSE]

-----------------------------------------------------------------------------
(* DigAccess.__init__ and define_read_settings *)

known_keys == <<"downsample", "channels_to_read", "start_read", "end_read",
                "start_time", "end_time", "max_frequency">>

default_settings(h) ==
    [k \in {"downsample", "channels_to_read", "start_read", "end_read"} |->
        CASE k = "downsample" -> 1
          [] k = "channels_to_read" -> [type |-> "list", val |-> h.channel_list]
          [] k = "start_read" -> 0
          [] k = "end_read" -> h.data_length_reads]

convert_time_to_readFloor(h, time) == (time * h.file_frequency) \div TimeDen

\* time is time/TimeDen seconds; period_between_reads = 1/file_frequency
convert_time_to_read(h, time) == PyCeilDiv(time * h.file_frequency, TimeDen)

convert_max_frequency_to_downsample(h, max_f) == PyFloorDiv(h.file_frequency, max_f)

unknown_keysAll(user_keys) == user_keys

unknown_keys(user_keys) == user_keys \ ToSet(known_keys)

\* set(user_keys) < set(known_settings): proper subset
ProperSubset(a, b) == a \subseteq b /\ a # b

BothGivenFirstOnly(user_keys, a, b) == a \in user_keys /\ b \notin user_keys

\* 'start_time' in user_keys, then 'start_read' in user_keys (and the like)
BothGiven(user_keys, a, b) == a \in user_keys /\ b \in user_keys

Raise(e, m) == [err |-> e, msg |-> m, plan |-> EmptyDict]

\* settings_dict = dict(default_settings), overwritten by the user's direct keys
Overwritten(h, items) ==
    [k \in DOMAIN default_settings(h) |->
        IF k \in DOMAIN items THEN items[k] ELSE default_settings(h)[k]]

\* type(settings_dict['channels_to_read']) is int -> [user_settings['channels_to_read']]
Normalised(s, items) ==
    IF s["channels_to_read"].type = "int"
    THEN [s EXCEPT !["channels_to_read"] =
            [type |-> "list", val |-> <<items["channels_to_read"].val[1]>>]]
    ELSE s

define_read_settings(h, us) ==
    IF ~us.mapping
    THEN Raise("DigReadSettingError", [NoMsg EXCEPT !.kind = "not_a_dictionary"])
    ELSE
    LET items == us.items
        user_keys == DOMAIN items
    IN
    IF ~ProperSubset(user_keys, ToSet(known_keys))
    THEN Raise("DigReadSettingError",
               [NoMsg EXCEPT !.kind = "unknown_keys", !.keys = unknown_keys(user_keys),
                             !.available = known_keys])
    ELSE
    LET s1 == Normalised(Overwritten(h, items), items) IN
    IF BothGiven(user_keys, "start_time", "start_read")
    THEN Raise("DigReadSettingError", [NoMsg EXCEPT !.kind = "start_time_or_start_read"])
    ELSE
    LET s2 == IF "start_time" \in user_keys
              THEN [s1 EXCEPT !["start_read"] = convert_time_to_read(h, items["start_time"])]
              ELSE s1
    IN
    IF BothGiven(user_keys, "end_time", "end_read")
    THEN Raise("DigReadSettingError", [NoMsg EXCEPT !.kind = "end_time_or_end_read"])
    ELSE
    LET s3 == IF "end_time" \in user_keys
              THEN [s2 EXCEPT !["end_read"] = convert_time_to_read(h, items["end_time"])]
              ELSE s2
    IN
    IF BothGiven(user_keys, "max_frequency", "downsample")
    THEN Raise("DigReadSettingError", [NoMsg EXCEPT !.kind = "max_frequency_or_downsample"])
    ELSE
    LET s4 == IF "max_frequency" \in user_keys
              THEN [s3 EXCEPT !["downsample"] =
                        convert_max_frequency_to_downsample(h, items["max_frequency"])]
              ELSE s3
    IN [err |-> "none", msg |-> NoMsg, plan |-> s4]

-----------------------------------------------------------------------------
(* The reader, DigRead: built from the plan at line 51 *)

\* self.read.downsample
read_downsample(plan) == plan["downsample"]

\* self.read.channels_to_read
read_channels_to_read(plan) == plan["channels_to_read"].val

\* the sample the file holds for channel chn at position k of the reader's output
Sample(chn, k) == 10 * (chn + 1) + k

\* self.read.data_segments(): one segment per entry of lens, each a mapping from the
\* requested channels to a run of lens[i] consecutive samples
RECURSIVE data_segments(_, _, _)
data_segments(chns, lens, from) ==
    IF lens = <<>> THEN <<>>
    ELSE <<[chn \in chns |-> [i \in 1..lens[1] |-> Sample(chn, from + i)]]>>
         \o data_segments(chns, Tail(lens), from + lens[1])

-----------------------------------------------------------------------------
(* numpy *)

\* np.zeros(n): ValueError for a negative or too large n, MemoryError when the
\* allocation fails, else n zeros
np_zeros(n, mem_fail) ==
    IF n < 0 \/ n > ArrayCapacity THEN [err |-> "ValueError", array |-> <<>>]
    ELSE IF mem_fail /\ n >= 1 THEN [err |-> "MemoryError", array |-> <<>>]
    ELSE [err |-> "none", array |-> [i \in 1..n |-> 0]]

\* a[index:index + len(run)] = run. The slice is clipped to the array; a run of the
\* slice's length is copied, a run of one sample is broadcast over the slice (also
\* over an empty one), any other run raises ValueError (could not broadcast).
SliceAssign(a, index, run) ==
    LET lo == Min(index, Len(a))
        hi == Min(index + Len(run), Len(a))
    IN  IF Len(run) = hi - lo
        THEN [err |-> "none",
              array |-> [i \in 1..Len(a) |-> IF i > lo /\ i <= hi THEN run[i - lo] ELSE a[i]]]
        ELSE IF Len(run) = 1
        THEN [err |-> "none",
              array |-> [i \in 1..Len(a) |-> IF i > lo /\ i <= hi THEN run[1] ELSE a[i]]]
        ELSE [err |-> "ValueError", array |-> a]

-----------------------------------------------------------------------------
(* allocate_data_dict, load_data_dict, data_dict, channel *)

\* lines 167-179. A MemoryError is re-raised; a ValueError is printed and the method
\* returns, leaving self._internal_data_dict as it was.
allocate_data_dict(plan, dict, mem_fail) ==
    LET number_of_reads == plan["end_read"] - plan["start_read"]
        downsample == read_downsample(plan)
        read_channels == read_channels_to_read(plan)
    IN  IF downsample = 0
        THEN [err |-> "ZeroDivisionError", dict |-> dict, stored |-> FALSE, capacity |-> FALSE]
        ELSE
        LET array_size == PyFloorDiv(number_of_reads, downsample)
            z == np_zeros(array_size, mem_fail)
        IN  IF read_channels = <<>>
            THEN [err |-> "none", dict |-> EmptyDict, stored |-> TRUE, capacity |-> FALSE]
            ELSE IF z.err = "MemoryError"
            THEN [err |-> "MemoryError", dict |-> dict, stored |-> FALSE, capacity |-> FALSE]
            ELSE IF z.err = "ValueError"
            THEN [err |-> "none", dict |-> dict, stored |-> FALSE,
                  capacity |-> array_size > ArrayCapacity]
            ELSE [err |-> "none", dict |-> [chn \in ToSet(read_channels) |-> z.array],
                  stored |-> TRUE, capacity |-> FALSE]

next_indexByOne(index, length) == index + 1

\* index += length
next_index(index, length) == index + length

\* lines 162-163 for one chn of the segment; st.length = -1 while length is unbound
WriteChannel(st, segment, chn) ==
    LET length == Len(segment[chn]) IN
    IF chn \notin DOMAIN st.dict
    THEN [st EXCEPT !.length = length, !.err = "KeyError"]
    ELSE LET w == SliceAssign(st.dict[chn], st.index, segment[chn]) IN
         [st EXCEPT !.length = length,
                    !.err = w.err,
                    !.dict = [@ EXCEPT ![chn] = w.array],
                    !.overflow = @ \/ st.index + length > Len(st.dict[chn])]

\* for chn in segment: the segment's channels, one after the other
RECURSIVE WriteChannels(_, _, _)
WriteChannels(st, segment, chns) ==
    IF chns = {} \/ st.err # "none" THEN st
    ELSE LET chn == CHOOSE c \in chns : \A d \in chns : c <= d IN
         WriteChannels(WriteChannel(st, segment, chn), segment, chns \ {chn})

\* for segment in self.read.data_segments(): lines 160-165
RECURSIVE Accumulate(_, _)
Accumulate(st, segs) ==
    IF segs = <<>> THEN st
    ELSE LET s1 == WriteChannels([st EXCEPT !.taken = @ + 1], Head(segs), DOMAIN Head(segs)) IN
         IF s1.err # "none" THEN s1
         ELSE IF s1.length = -1 THEN [s1 EXCEPT !.err = "UnboundLocalError"]
         ELSE Accumulate([s1 EXCEPT !.index = next_index(s1.index, s1.length)], Tail(segs))

NotLoaded(dict) ==
    [err |-> "none", dict |-> dict, loaded |-> FALSE, stored |-> FALSE,
     capacity |-> FALSE, consumed |-> FALSE, overflow |-> FALSE, segments |-> <<>>]

\* lines 150-165
load_data_dict(plan, dict, lens, mem_fail) ==
    LET a == allocate_data_dict(plan, dict, mem_fail) IN
    IF a.err # "none"
    THEN [NotLoaded(a.dict) EXCEPT !.err = a.err, !.loaded = TRUE]
    ELSE LET segs == data_segments(ToSet(read_channels_to_read(plan)), lens, 0)
             st == Accumulate([dict |-> a.dict, index |-> 0, length |-> -1, taken |-> 0,
                               err |-> "none", overflow |-> FALSE], segs)
         IN [err |-> st.err, dict |-> st.dict, loaded |-> TRUE, stored |-> a.stored,
             capacity |-> a.capacity, consumed |-> TRUE, overflow |-> st.overflow,
             segments |-> SubSeq(segs, 1, st.taken)]

\* `not self._internal_data_dict`: an empty dict is falsy
IsFalsy(dict) == DOMAIN dict = {}

\* the data_dict property, lines 116-120
data_dict(plan, dict, lens, mem_fail) ==
    IF IsFalsy(dict) THEN load_data_dict(plan, dict, lens, mem_fail) ELSE NotLoaded(dict)

InvalidChannelRequested(h, channels_to_read) ==
    [kind |-> "invalid_channel", keys |-> {}, available |-> <<>>,
     channel_list |-> channels_to_read,
     channel_names |-> [i \in DOMAIN channels_to_read |-> "?"]]

\* the KeyError text of lines 193-196: self.header.channel_list and channel_names
InvalidChannel(h, channels_to_read) ==
    [kind |-> "invalid_channel", keys |-> {}, available |-> <<>>,
     channel_list |-> h.channel_list, channel_names |-> h.channel_names]

\* lines 184-196; `value` is the array returned
channel(h, plan, dict, chn, lens, mem_fail) ==
    IF chn \in ToSet(read_channels_to_read(plan))
    THEN LET r == data_dict(plan, dict, lens, mem_fail) IN
         IF r.err = "TypeError"
         THEN [r EXCEPT !.err = "DigReadSettingError"] @@ [msg |-> NoMsg, value |-> <<>>]
         ELSE IF r.err # "none" THEN r @@ [msg |-> NoMsg, value |-> <<>>]
         ELSE IF chn \notin DOMAIN r.dict
         THEN [r EXCEPT !.err = "KeyError"] @@ [msg |-> NoMsg, value |-> <<>>]
         ELSE r @@ [msg |-> NoMsg, value |-> r.dict[chn]]
    ELSE [NotLoaded(dict) EXCEPT !.err = "KeyError"]
         @@ [msg |-> InvalidChannel(h, read_channels_to_read(plan)), value |-> <<>>]

-----------------------------------------------------------------------------
(* The sessions the model opens *)

Headers ==
    {[channel_list |-> <<0, 1>>, channel_names |-> <<"chA", "chB">>,
      data_length_reads |-> 3, file_frequency |-> 2]}

DownsampleValues == {-1, 2}
StartReadValues == {1}
EndReadValues == {2, 5}
StartTimeValues == {1}            \* 1/TimeDen s
EndTimeValues == {5}              \* 5/TimeDen s
MaxFrequencyValues == {1, 3}      \* below and above file_frequency
ChannelValues ==
    {[type |-> "int", val |-> <<1>>], [type |-> "list", val |-> <<1>>],
     [type |-> "list", val |-> <<>>], [type |-> "list", val |-> <<1, 0>>]}
UnknownKeySets == {{}, {"chn"}, {"chn", "frequency_cut_off"}}

\* the dictionary holding the keys of `given` and the unknown keys of `unk`
MakeItems(given, ds, ch, sr, er, st, et, mf, unk) ==
    [k \in given \cup unk |->
          CASE k = "downsample" -> ds
            [] k = "channels_to_read" -> ch
            [] k = "start_read" -> sr
            [] k = "end_read" -> er
            [] k = "start_time" -> st
            [] k = "end_time" -> et
            [] k = "max_frequency" -> mf
            [] OTHER -> 0]

Fresh ==
    /\ header \in Headers
    /\ phase = "new"
    /\ read_settings = EmptyDict
    /\ _internal_data_dict = EmptyDict
    /\ op = "none"
    /\ arg = -1
    /\ err = "none"
    /\ msg = NoMsg
    /\ ret = NoRet
    /\ trace = NoTrace
    /\ history = [assembled |-> FALSE, partial |-> FALSE]
    /\ calls = 0

AnySettings ==
    \/ user_settings = [mapping |-> FALSE, items |-> EmptyDict]
    \/ \E given \in SUBSET ToSet(known_keys), unk \in UnknownKeySets,
          ds \in DownsampleValues, ch \in ChannelValues, sr \in StartReadValues,
          er \in EndReadValues, st \in StartTimeValues, et \in EndTimeValues,
          mf \in MaxFrequencyValues :
         user_settings =
           [mapping |-> TRUE,
            items |-> MakeItems(given, ds, ch, sr, er, st, et, mf, unk)]

\* the keys that shape the assembly: the channels, the extent, the downsample factor
AssemblyKeys == {"channels_to_read", "start_read", "end_read", "downsample", "max_frequency"}

AssemblySettings ==
    \E given \in SUBSET AssemblyKeys,
       ds \in DownsampleValues, ch \in ChannelValues, sr \in StartReadValues,
       er \in EndReadValues, mf \in MaxFrequencyValues :
      user_settings =
        [mapping |-> TRUE, items |-> MakeItems(given, ds, ch, sr, er, 0, 0, mf, {})]

Init == Fresh /\ AssemblySettings

InitResolve == Fresh /\ AnySettings

\* __init__: lines 40-53
Construct ==
    /\ phase = "new"
    /\ LET r == define_read_settings(header, user_settings) IN
        /\ phase' = IF r.err = "none" THEN "open" ELSE "failed"
        /\ read_settings' = r.plan
        /\ err' = r.err
        /\ msg' = r.msg
    /\ op' = "__init__"
    /\ UNCHANGED <<header, user_settings, _internal_data_dict, arg, ret, trace,
                   history, calls>>

\* the lengths of the segments one run of the reader yields
SegLens == {0, 1, 2}
SegmentLengths == UNION {[1..n -> SegLens] : n \in 0..MaxSegs}

\* inputs that decide nothing are fixed: the segments when none is pulled, the
\* allocation failure when np.zeros is not asked for a non-empty array
Decides(r, lens, mem_fail) ==
    /\ mem_fail => r.err = "MemoryError"
    /\ lens # <<>> => r.consumed /\ Len(r.segments) = Len(lens)

RequestedChannels == {0, 1, 2}

\* what a call did (trace) and what it leaves behind (history)
Traced(r) ==
    [loaded |-> r.loaded, allocated |-> r.loaded, stored |-> r.stored,
     consumed |-> r.consumed, capacity |-> r.capacity, overflow |-> r.overflow,
     segments |-> r.segments,
     pre_assembled |-> history.assembled, pre_partial |-> history.partial]

Remembered(r) ==
    [assembled |-> history.assembled \/ (r.loaded /\ r.stored /\ r.err = "none"),
     partial |-> IF r.loaded THEN r.stored /\ r.err # "none" ELSE history.partial]

\* testfile.data_dict
GetDataDict(lens, mem_fail) ==
    /\ phase = "open"
    /\ calls < MaxCalls
    /\ LET r == data_dict(read_settings, _internal_data_dict, lens, mem_fail) IN
        /\ Decides(r, lens, mem_fail)
        /\ _internal_data_dict' = r.dict
        /\ err' = r.err
        /\ ret' = IF r.err = "none" THEN [NoRet EXCEPT !.kind = "dict", !.dict = r.dict]
                  ELSE NoRet
        /\ trace' = Traced(r)
        /\ history' = Remembered(r)
    /\ op' = "data_dict"
    /\ arg' = -1
    /\ msg' = NoMsg
    /\ calls' = calls + 1
    /\ UNCHANGED <<header, user_settings, phase, read_settings>>

\* testfile.channel(chn)
Channel(chn, lens, mem_fail) ==
    /\ phase = "open"
    /\ calls < MaxCalls
    /\ LET r == channel(header, read_settings, _internal_data_dict, chn, lens, mem_fail) IN
        /\ Decides(r, lens, mem_fail)
        /\ _internal_data_dict' = r.dict
        /\ err' = r.err
        /\ msg' = r.msg
        /\ ret' = IF r.err = "none" THEN [NoRet EXCEPT !.kind = "array", !.array = r.value]
                  ELSE NoRet
        /\ trace' = Traced(r)
        /\ history' = Remembered(r)
    /\ op' = "channel"
    /\ arg' = chn
    /\ calls' = calls + 1
    /\ UNCHANGED <<header, user_settings, phase, read_settings>>

Next ==
    \/ Construct
    \/ \E lens \in SegmentLengths, mem_fail \in BOOLEAN : GetDataDict(lens, mem_fail)
    \/ \E chn \in RequestedChannels, lens \in SegmentLengths, mem_fail \in BOOLEAN :
          Channel(chn, lens, mem_fail)

Spec == Init /\ [][Next]_vars

\* construction alone, over every settings mapping of the model
SpecResolve == InitResolve /\ [][Construct]_vars

-----------------------------------------------------------------------------
(* Properties *)

IsAccess == op \in {"data_dict", "channel"}

\* the channels of the plan
Planned == ToSet(read_settings["channels_to_read"].val)

\* the allocated length the plan asks for: (end_read - start_read) / downsample
PlannedLength ==
    PyFloorDiv(read_settings["end_read"] - read_settings["start_read"],
               read_settings["downsample"])

RECURSIVE RunsOf(_, _)
\* the in-order concatenation of channel chn's runs
RunsOf(segs, chn) ==
    IF segs = <<>> THEN <<>> ELSE Head(segs)[chn] \o RunsOf(Tail(segs), chn)

UserKeys == DOMAIN user_settings.items

Direct == {"downsample", "channels_to_read", "start_read", "end_read"}

Known == Direct \cup {"start_time", "end_time", "max_frequency"}

Conflicting ==
    \/ {"start_time", "start_read"} \subseteq UserKeys
    \/ {"end_time", "end_read"} \subseteq UserKeys
    \/ {"max_frequency", "downsample"} \subseteq UserKeys

\* the least read r with r >= t * file_frequency, t = time/TimeDen seconds
CeilRead(time) ==
    CHOOSE r \in 0..(time * header.file_frequency) :
        /\ r * TimeDen >= time * header.file_frequency
        /\ (r - 1) * TimeDen < time * header.file_frequency

\* the greatest d with d * max_f <= file_frequency, max_f > 0
FloorDownsample(max_f) ==
    CHOOSE d \in 0..header.file_frequency :
        d * max_f <= header.file_frequency /\ (d + 1) * max_f > header.file_frequency

\* C1: once an access has completed assembly, a later access to data_dict or
\* channel neither calls allocate_data_dict nor consumes read.data_segments() again,
\* whatever the plan (an empty channels_to_read included).
C1_AssembledOnce ==
    (IsAccess /\ trace.pre_assembled) => (~trace.allocated /\ ~trace.consumed)

\* C2: an access whose allocation hits the capacity failure of the array
\* constructor fails with the CapacityError (the ValueError of np.zeros) and leaves
\* no cached store.
C2_CapacityFailureRaises ==
    (IsAccess /\ trace.capacity) => (err = "ValueError" /\ IsFalsy(_internal_data_dict))

\* C3: when the allocation of length N succeeded and the per-channel lengths of the
\* segments sum to N, the load returns and every planned channel holds an array of
\* length N equal to the in-order concatenation of its runs.
C3_Concatenation ==
    (/\ IsAccess
     /\ trace.loaded
     /\ trace.stored
     /\ \A chn \in Planned : Len(RunsOf(trace.segments, chn)) = PlannedLength)
    => /\ Planned # {} => err = "none"
       /\ \A chn \in Planned :
            /\ chn \in DOMAIN _internal_data_dict
            /\ Len(_internal_data_dict[chn]) = PlannedLength
            /\ _internal_data_dict[chn] = RunsOf(trace.segments, chn)

C3_Witness ==
    /\ op = "data_dict"
    /\ trace.stored
    /\ err = "none"
    /\ Planned = {0, 1}
    /\ PlannedLength = 3
    /\ Len(trace.segments) = 2
    /\ Len(trace.segments[1][0]) = 2
    /\ Len(trace.segments[2][0]) = 1
    /\ _internal_data_dict[1] = <<Sample(1, 1), Sample(1, 2), Sample(1, 3)>>

C5_ConflictRejected ==
    (op = "__init__" /\ user_settings.mapping /\ Conflicting)
    => (err = "DigReadSettingError" /\ phase = "failed" /\ read_settings = EmptyDict)

C5_Witness ==
    /\ op = "__init__"
    /\ UserKeys = {"max_frequency", "downsample", "start_time", "channels_to_read"}
    /\ err = "DigReadSettingError"
    /\ msg.kind = "max_frequency_or_downsample"

\* C6: a settings mapping with a key outside the known keys fails with
\* DigReadSettingError, and the message lists exactly the unknown keys.
C6_UnknownKeysListed ==
    (op = "__init__" /\ user_settings.mapping /\ ~(UserKeys \subseteq Known))
    => /\ err = "DigReadSettingError"
       /\ phase = "failed"
       /\ msg.kind = "unknown_keys"
       /\ msg.keys = {k \in UserKeys : k \notin Known}

C6_Witness ==
    /\ op = "__init__"
    /\ UserKeys = {"chn", "frequency_cut_off", "downsample", "end_time"}
    /\ msg.keys = {"chn", "frequency_cut_off"}

OverflowErrors == {"IndexError", "ValueError"}

\* C8: a load in which the running offset plus a segment's length exceeds the
\* array length fails with an error of that class, whatever the segment's length.
C8_OverflowRaises ==
    (IsAccess /\ trace.overflow) => err \in OverflowErrors

\* C9: with max_frequency above file_frequency the plan's downsample is 0 and the
\* first access, which allocates, fails with DigReadSettingError.
C9_ZeroDownsampleIsConfigError ==
    (/\ IsAccess
     /\ trace.loaded
     /\ "max_frequency" \in UserKeys
     /\ user_settings.items["max_frequency"] > header.file_frequency)
    => (read_settings["downsample"] = 0 /\ err = "DigReadSettingError")

\* C10: after an access that raised part-way through accumulation, a later access
\* fails again or restarts assembly from a fresh allocation; it does not return
\* the partially filled store.
C10_NoPartialStoreServed ==
    (IsAccess /\ trace.pre_partial) => (err # "none" \/ (trace.allocated /\ trace.stored))

====
